---- MODULE Spec2Model ----
(***************************************************************************)
(* Model of the Speech Utility App: the two Streamlit entry points          *)
(* app.py (upload + browser text-to-speech) and speech_recognition.py      *)
(* (microphone + local text-to-speech).                                    *)
(*                                                                         *)
(* A Streamlit script is re-run from top to bottom on every interaction of *)
(* a session; the front end sends the widget values with the request.  One *)
(* action of the model is one whole run of main() for one session, with    *)
(* the widget values and the outcome of every library call as inputs.      *)
(*                                                                         *)
(* Three specifications:                                                   *)
(*   Spec      the sessions of one process running one of the two scripts  *)
(*   SpecCall  the operations called directly with arbitrary arguments     *)
(*   SpecText  the text-to-speech tab of app.py on longer texts            *)
(***************************************************************************)
EXTENDS Integers, Sequences, FiniteSets, TLC

VARIABLES script, cache, loads, tmp, ss, run

vars == <<script, cache, loads, tmp, ss, run>>

(***************************************************************************)
(* Bounds                                                                  *)
(***************************************************************************)
NumSessions == 1    \* browser sessions open at the same time
MaxLen      == 3    \* longest text in SpecText
MaxInputLen == 1    \* longest text typed into the text area in Spec
MaxCallLen  == 2    \* longest text handed to speak_text in SpecCall
MaxRawLen   == 1    \* longest text the recognition model returns
MaxTmp      == 2    \* temporary files the model lets pile up on disk

(***************************************************************************)
(* Texts: sequences of characters.  "</script>" stands for that substring. *)
(***************************************************************************)
Whitespace == {" ", "\n"}
Chars      == {"a", " ", "\n", "\"", "\\", "</script>"}
InputChars == {"a", " "}
RawChars   == {"a", " "}

TextsOver(alphabet, n) == UNION {[1..k -> alphabet] : k \in 0..n}

Texts    == TextsOver(Chars, MaxLen)
Inputs   == TextsOver(InputChars, MaxInputLen)
Spoken   == TextsOver(Chars, MaxCallLen)
RawTexts == TextsOver(RawChars, MaxRawLen)

None == "None"

\* Python truthiness of a str
Truthy(text) == text # <<>>

(***************************************************************************)
(* str.strip() and str.split()                                             *)
(***************************************************************************)
RECURSIVE lstrip(_)
lstrip(s) ==
    IF s # <<>> /\ Head(s) \in Whitespace THEN lstrip(Tail(s)) ELSE s

RECURSIVE rstrip(_)
rstrip(s) ==
    IF s # <<>> /\ s[Len(s)] \in Whitespace
    THEN rstrip(SubSeq(s, 1, Len(s) - 1))
    ELSE s

strip(s) == rstrip(lstrip(s))

RECURSIVE SplitFrom(_, _, _)
SplitFrom(s, i, cur) ==
    IF i > Len(s)
    THEN IF cur = <<>> THEN <<>> ELSE <<cur>>
    ELSE IF s[i] \in Whitespace
         THEN IF cur = <<>>
              THEN SplitFrom(s, i + 1, <<>>)
              ELSE <<cur>> \o SplitFrom(s, i + 1, <<>>)
         ELSE SplitFrom(s, i + 1, Append(cur, s[i]))

RECURSIVE SplitOnSpace(_, _, _)
SplitOnSpace(s, i, cur) ==
    IF i > Len(s)
    THEN <<cur>>
    ELSE IF s[i] = " "
         THEN <<cur>> \o SplitOnSpace(s, i + 1, <<>>)
         ELSE SplitOnSpace(s, i + 1, Append(cur, s[i]))

\* user_text.split(" "): single spaces separate, empty pieces are kept
split_on_space(s) == SplitOnSpace(s, 1, <<>>)

\* user_text.split(): runs of whitespace separate, no empty pieces
split(s) == SplitFrom(s, 1, <<>>)

(***************************************************************************)
(* get_audio_player_html: the f-string template around {text}              *)
(***************************************************************************)
HtmlHead ==
    << "<script>", "function speakText() {", "const text = ", "\"" >>

ScriptTail ==
    << ";", "const utterance = new SpeechSynthesisUtterance(text);",
       "window.speechSynthesis.speak(utterance);", "}" >>

MarkupTail ==
    << "<button onclick=speakText()>", "Speak Text (Browser TTS)", "</button>" >>

HtmlTail == << "\"" >> \o ScriptTail \o << "</script>" >> \o MarkupTail

get_audio_player_html(text) == HtmlHead \o text \o HtmlTail

(***************************************************************************)
(* How a browser reads the markup: the script element ends at the first    *)
(* "</script>", and a double-quoted string literal ends at the first       *)
(* unescaped quote; a backslash escapes the next character (a backslash    *)
(* before a line break continues the line), a bare line break is an error. *)
(***************************************************************************)
RECURSIVE IndexOf(_, _, _)
IndexOf(toks, x, i) ==
    IF i > Len(toks) THEN 0
    ELSE IF toks[i] = x THEN i ELSE IndexOf(toks, x, i + 1)

ScriptBody(html) ==
    LET e == IndexOf(html, "</script>", 2)
    IN  IF e = 0 THEN SubSeq(html, 2, Len(html)) ELSE SubSeq(html, 2, e - 1)

AfterScript(html) ==
    LET e == IndexOf(html, "</script>", 2)
    IN  IF e = 0 THEN <<>> ELSE SubSeq(html, e + 1, Len(html))

RECURSIVE ReadLiteral(_, _, _)
ReadLiteral(toks, i, acc) ==
    IF i > Len(toks) THEN [ok |-> FALSE, value |-> acc, rest |-> <<>>]
    ELSE IF toks[i] = "\""
         THEN [ok |-> TRUE, value |-> acc, rest |-> SubSeq(toks, i + 1, Len(toks))]
    ELSE IF toks[i] = "\n"
         THEN [ok |-> FALSE, value |-> acc, rest |-> SubSeq(toks, i, Len(toks))]
    ELSE IF toks[i] = "\\"
         THEN IF i + 1 > Len(toks)
              THEN [ok |-> FALSE, value |-> acc, rest |-> <<>>]
              ELSE IF toks[i + 1] = "\n"
                   THEN ReadLiteral(toks, i + 2, acc)
                   ELSE ReadLiteral(toks, i + 2, Append(acc, toks[i + 1]))
    ELSE ReadLiteral(toks, i + 1, Append(acc, toks[i]))

\* the literal of `const text = "..."` as the script engine reads it
TextLiteral(html) == ReadLiteral(ScriptBody(html), Len(HtmlHead), <<>>)

(***************************************************************************)
(* What an operation leaves behind: its return value, the library calls it *)
(* made in order, the st.* messages it emitted in order, whether an        *)
(* exception left it, the number of temporary files on disk, and the step  *)
(* that raised, if one did.                                                *)
(***************************************************************************)
Msg(level, id) == [level |-> level, id |-> id, text |-> <<>>]

MsgText(level, id, text) == [level |-> level, id |-> id, text |-> text]

Result(ret, calls, msgs, raised, files, failed) ==
    [ret |-> ret, calls |-> calls, msgs |-> msgs, raised |-> raised, tmp |-> files,
     failed |-> failed]

Count(seq, x) == Cardinality({i \in 1..Len(seq) : seq[i] = x})

Errors(msgs) == Cardinality({i \in 1..Len(msgs) : msgs[i].level = "error"})

Warnings(msgs) == Cardinality({i \in 1..Len(msgs) : msgs[i].level = "warning"})

(***************************************************************************)
(* speech_recognition.py: record_audio.  fp is the call that raises.       *)
(***************************************************************************)
RecordFail == {"sd.rec", "sd.wait", "none"}

record_audio(fp) ==
    LET info == Msg("info", "Recording... Speak now!")
        err  == Msg("error", "Error recording audio")
    IN  IF fp = "sd.rec"
        THEN Result(None, <<"sd.rec">>, <<info, err>>, FALSE, 0, <<fp>>)
        ELSE IF fp = "sd.wait"
        THEN Result(None, <<"sd.rec", "sd.wait">>, <<info, err>>, FALSE, 0, <<fp>>)
        ELSE Result("audio", <<"sd.rec", "sd.wait">>,
                    <<info, Msg("success", "Recording complete!")>>, FALSE, 0, <<>>)

(***************************************************************************)
(* speech_recognition.py: transcribe_audio.  raw is result["text"].        *)
(***************************************************************************)
TranscribeFail == {"model.transcribe", "result", "none"}

transcribe_audio_no_except(audio, fp, raw) ==
    LET info == Msg("info", "Transcribing...")
    IN  IF audio = None
        THEN Result(<<>>, <<>>,
                    <<Msg("warning", "No audio recorded. Please try again.")>>, FALSE, 0, <<>>)
        ELSE IF fp # "none"
        THEN Result(<<>>, <<"model.transcribe">>, <<info>>, TRUE, 0, <<fp>>)
        ELSE Result(strip(raw), <<"model.transcribe">>,
                    <<info, MsgText("write", "Transcribed Text", strip(raw))>>, FALSE, 0, <<>>)

transcribe_audio(audio, fp, raw) ==
    LET info == Msg("info", "Transcribing...")
        err  == Msg("error", "Error transcribing audio")
    IN  IF audio = None
        THEN Result(<<>>, <<>>,
                    <<Msg("warning", "No audio recorded. Please try again.")>>, FALSE, 0, <<>>)
        ELSE IF fp # "none"
        THEN Result(<<>>, <<"model.transcribe">>, <<info, err>>, FALSE, 0, <<fp>>)
        ELSE Result(strip(raw), <<"model.transcribe">>,
                    <<info, MsgText("write", "Transcribed Text", strip(raw))>>, FALSE, 0, <<>>)

(***************************************************************************)
(* app.py: transcribe_uploaded_audio.  files is the number of temporary    *)
(* files on disk when it is called.  NamedTemporaryFile(delete=False)      *)
(* leaves the file in place when the with block is left, also by raise.    *)
(***************************************************************************)
UploadFail ==
    {"tempfile.NamedTemporaryFile", "tmp_file.write", "model.transcribe",
     "result", "os.unlink", "none"}

\* the library calls made up to and including the one that raises
CallsUpTo(fp) ==
    LET all  == <<"tempfile.NamedTemporaryFile", "tmp_file.write",
                  "model.transcribe", "os.unlink">>
        last == CASE fp = "tempfile.NamedTemporaryFile" -> 1
                  [] fp = "tmp_file.write"              -> 2
                  [] fp = "model.transcribe"            -> 3
                  [] fp = "result"                      -> 3
                  [] OTHER                              -> 4
    IN  SubSeq(all, 1, last)

transcribe_uploaded_audio_no_guard(audio_file, fp, raw, files) ==
    LET info == Msg("info", "Transcribing...")
        err  == Msg("error", "Error transcribing audio")
    IN  IF audio_file = None
        THEN IF fp = "tempfile.NamedTemporaryFile"
             THEN Result(<<>>, CallsUpTo(fp), <<info, err>>, FALSE, files, <<fp>>)
             ELSE Result(<<>>, <<"tempfile.NamedTemporaryFile">>, <<info, err>>,
                         FALSE, files + 1, <<fp>>)
        ELSE IF fp = "tempfile.NamedTemporaryFile"
        THEN Result(<<>>, CallsUpTo(fp), <<info, err>>, FALSE, files, <<fp>>)
        ELSE IF fp # "none"
        THEN Result(<<>>, CallsUpTo(fp), <<info, err>>, FALSE, files + 1, <<fp>>)
        ELSE Result(strip(raw), CallsUpTo(fp),
                    <<info, MsgText("write", "Transcribed Text", strip(raw))>>,
                    FALSE, files, <<>>)

transcribe_uploaded_audio(audio_file, fp, raw, files) ==
    LET info == Msg("info", "Transcribing...")
        err  == Msg("error", "Error transcribing audio")
    IN  IF audio_file = None
        THEN Result(<<>>, <<>>,
                    <<Msg("warning", "No audio uploaded. Please upload an audio file.")>>,
                    FALSE, files, <<>>)
        ELSE IF fp = "tempfile.NamedTemporaryFile"
        THEN Result(<<>>, CallsUpTo(fp), <<info, err>>, FALSE, files, <<fp>>)
        ELSE IF fp # "none"
        THEN \* write, transcribe, result or unlink raised: os.unlink did not
             \* run, or did not remove the file
             Result(<<>>, CallsUpTo(fp), <<info, err>>, FALSE, files + 1, <<fp>>)
        ELSE Result(strip(raw), CallsUpTo(fp),
                    <<info, MsgText("write", "Transcribed Text", strip(raw))>>,
                    FALSE, files, <<>>)

(***************************************************************************)
(* speech_recognition.py: speak_text                                       *)
(***************************************************************************)
SpeakFail == {"engine.say", "engine.runAndWait", "none"}

speak_text_no_wait(text, fp) ==
    LET info == Msg("info", "Speaking...")
        err  == Msg("error", "Error speaking text")
    IN  IF ~Truthy(text)
        THEN Result(None, <<>>,
                    <<Msg("warning", "No text to speak. Please enter some text.")>>,
                    FALSE, 0, <<>>)
        ELSE IF fp = "engine.say"
        THEN Result(None, <<"engine.say">>, <<info, err>>, FALSE, 0, <<fp>>)
        ELSE Result(None, <<"engine.say">>,
                    <<info, Msg("success", "Speech completed!")>>, FALSE, 0, <<>>)

speak_text(text, fp) ==
    LET info == Msg("info", "Speaking...")
        err  == Msg("error", "Error speaking text")
    IN  IF ~Truthy(text)
        THEN Result(None, <<>>,
                    <<Msg("warning", "No text to speak. Please enter some text.")>>,
                    FALSE, 0, <<>>)
        ELSE IF fp = "engine.say"
        THEN Result(None, <<"engine.say">>, <<info, err>>, FALSE, 0, <<fp>>)
        ELSE IF fp = "engine.runAndWait"
        THEN Result(None, <<"engine.say", "engine.runAndWait">>, <<info, err>>, FALSE, 0, <<fp>>)
        ELSE Result(None, <<"engine.say", "engine.runAndWait">>,
                    <<info, Msg("success", "Speech completed!")>>, FALSE, 0, <<>>)

(***************************************************************************)
(* @st.cache_resource: the process-wide memo of load_whisper_model and of  *)
(* init_tts_engine.  c is the memo entry (0: not computed yet), n the      *)
(* number of models whisper.load_model has built so far; a handle is named *)
(* by the number of the load that built it.  The elements the function     *)
(* emitted are replayed on a hit.                                          *)
(***************************************************************************)
load_whisper_model_uncached(c, n, ok) ==
    LET info == <<Msg("info", "Loading Whisper model...")>>
        call == <<"whisper.load_model">>
    IN  IF ok
        THEN [ret |-> n + 1, cache |-> n + 1, loads |-> n + 1, raised |-> FALSE,
              msgs |-> info, calls |-> call]
        ELSE [ret |-> 0, cache |-> c, loads |-> n, raised |-> TRUE,
              msgs |-> info, calls |-> call]

load_whisper_model(c, n, ok) ==
    LET info == <<Msg("info", "Loading Whisper model...")>>
        call == <<"whisper.load_model">>
    IN  IF c # 0
        THEN [ret |-> c, cache |-> c, loads |-> n, raised |-> FALSE,
              msgs |-> info, calls |-> <<>>]
        ELSE IF ok
        THEN [ret |-> n + 1, cache |-> n + 1, loads |-> n + 1, raised |-> FALSE,
              msgs |-> info, calls |-> call]
        ELSE [ret |-> 0, cache |-> 0, loads |-> n, raised |-> TRUE,
              msgs |-> info, calls |-> call]

Rate == 150

\* the engine is named by the speech rate it was set to
init_tts_engine(c, ok) ==
    IF c # 0 THEN [ret |-> c, cache |-> c, raised |-> FALSE, calls |-> <<>>]
    ELSE IF ok
    THEN [ret |-> Rate, cache |-> Rate, raised |-> FALSE,
          calls |-> <<"pyttsx3.init", "engine.setProperty">>]
    ELSE [ret |-> 0, cache |-> 0, raised |-> TRUE, calls |-> <<"pyttsx3.init">>]

(***************************************************************************)
(* State                                                                   *)
(*   script  the entry point the process runs                              *)
(*   cache   the cache_resource memo: whisper handle, tts engine (0: none) *)
(*   loads   models built by whisper.load_model so far                     *)
(*   tmp     temporary files on disk                                       *)
(*   ss      st.session_state of each session; 0 or <<>> is a missing key, *)
(*           <<t>> is the text t                                           *)
(*   run     the most recent run of main or call of an operation: its      *)
(*           inputs, library calls, messages and displayed widgets         *)
(***************************************************************************)
Sessions == 1..NumSessions

EmptyState ==
    [whisper_model |-> 0, tts_engine |-> 0,
     transcribed_text |-> <<>>, repeated_text |-> <<>>]

EmptyRun ==
    [who |-> 0, kind |-> "none", button |-> "none", file |-> None,
     user_text |-> <<>>, calls |-> <<>>, msgs |-> <<>>, audio |-> "",
     text |-> <<>>, raised |-> FALSE, failed |-> <<>>,
     text_area |-> <<>>, html |-> <<>>, word_count |-> <<>>]

NoResult(files) == Result(<<>>, <<>>, <<>>, FALSE, files, <<>>)

(***************************************************************************)
(* app.py: main                                                            *)
(***************************************************************************)
\* lines 70-74
AppSessionInit(st, c, n, loadOk) ==
    LET need == st.whisper_model = 0
        l    == load_whisper_model(c, n, loadOk)
        st1  == IF need THEN [st EXCEPT !.whisper_model = l.ret] ELSE st
        st2  == IF st1.transcribed_text = <<>>
                THEN [st1 EXCEPT !.transcribed_text = << <<>> >>]
                ELSE st1
    IN  IF need /\ l.raised
        THEN [st |-> st, cache |-> l.cache, loads |-> l.loads, raised |-> TRUE,
              msgs |-> l.msgs, calls |-> l.calls]
        ELSE [st |-> st2,
              cache |-> IF need THEN l.cache ELSE c,
              loads |-> IF need THEN l.loads ELSE n,
              raised |-> FALSE,
              msgs |-> IF need THEN l.msgs ELSE <<>>,
              calls |-> IF need THEN l.calls ELSE <<>>]

\* lines 94-107, storing the text only when there is one
AppTab1_keep_on_empty(st, uploaded_file, clicked, fp, raw, files) ==
    IF uploaded_file # None /\ clicked
    THEN LET t == transcribe_uploaded_audio(uploaded_file, fp, raw, files)
         IN  [st |-> IF Truthy(t.ret)
                     THEN [st EXCEPT !.transcribed_text = <<t.ret>>]
                     ELSE st,
              res |-> t,
              text |-> <<t.ret>>,
              text_area |-> IF Truthy(t.ret) THEN <<t.ret>> ELSE <<>>]
    ELSE [st |-> st, res |-> NoResult(files), text |-> <<>>, text_area |-> <<>>]

\* lines 94-107
AppTab1(st, uploaded_file, clicked, fp, raw, files) ==
    IF uploaded_file # None /\ clicked
    THEN LET t == transcribe_uploaded_audio(uploaded_file, fp, raw, files)
         IN  [st |-> [st EXCEPT !.transcribed_text = <<t.ret>>],
              res |-> t,
              text |-> <<t.ret>>,
              text_area |-> IF Truthy(t.ret) THEN <<t.ret>> ELSE <<>>]
    ELSE [st |-> st, res |-> NoResult(files), text |-> <<>>, text_area |-> <<>>]

\* lines 109-121
AppTab2(user_text) ==
    IF Truthy(user_text)
    THEN [html |-> <<get_audio_player_html(user_text)>>,
          word_count |-> <<Len(split(user_text))>>]
    ELSE [html |-> <<>>, word_count |-> <<>>]

WebLimits == Msg("warning", "The web version has limited functionality")

AppMain(s, uploaded_file, clicked, user_text, loadOk, fp, raw) ==
    /\ script = "app.py"
    /\ \E i \in {AppSessionInit(ss[s], cache.whisper, loads, loadOk)} :
       \E t1 \in {AppTab1(i.st, uploaded_file, clicked, fp, raw, tmp)} :
       \E t2 \in {AppTab2(user_text)} :
       \E in \in {[EmptyRun EXCEPT
                     !.who = s, !.kind = "app.py",
                     !.button = IF clicked THEN "transcribe_upload" ELSE "none",
                     !.file = uploaded_file, !.user_text = user_text]} :
          /\ cache' = [cache EXCEPT !.whisper = i.cache]
          /\ loads' = i.loads
          /\ UNCHANGED script
          /\ IF i.raised
             THEN /\ UNCHANGED <<ss, tmp>>
                  /\ run' = [in EXCEPT !.raised = TRUE, !.msgs = i.msgs,
                                       !.calls = i.calls,
                                       !.failed = <<"whisper.load_model">>]
             ELSE /\ t1.res.tmp <= MaxTmp
                  /\ ss' = [ss EXCEPT ![s] = t1.st]
                  /\ tmp' = t1.res.tmp
                  /\ run' = [in EXCEPT
                               !.msgs = i.msgs \o <<WebLimits>> \o t1.res.msgs,
                               !.calls = i.calls \o t1.res.calls,
                               !.failed = t1.res.failed,
                               !.text = t1.text,
                               !.text_area = t1.text_area,
                               !.html = t2.html,
                               !.word_count = t2.word_count]

Files == {None, "file"}

\* The outcome of a call is chosen only when the call is made.
LoadOutcomes(s) ==
    IF ss[s].whisper_model = 0 /\ cache.whisper = 0 THEN BOOLEAN ELSE {TRUE}

EngineOutcomes(s) ==
    IF ss[s].tts_engine = 0 /\ cache.tts = 0 THEN BOOLEAN ELSE {TRUE}

RawOutcomes(fp) == IF fp = "none" THEN RawTexts ELSE {<<>>}

\* a run caused by uploading or removing a file, or by editing the text area
AppRerun ==
    \E s \in Sessions, f \in Files, user_text \in Inputs :
        \E loadOk \in LoadOutcomes(s) :
            AppMain(s, f, FALSE, user_text, loadOk, "none", <<>>)

\* a run caused by a click on "Transcribe Audio", shown only under a file
AppTranscribeClick ==
    \E s \in Sessions, user_text \in Inputs, fp \in UploadFail :
        \E loadOk \in LoadOutcomes(s), raw \in RawOutcomes(fp) :
            AppMain(s, "file", TRUE, user_text, loadOk, fp, raw)

(***************************************************************************)
(* speech_recognition.py: main                                             *)
(***************************************************************************)
\* lines 69-73; c is the memo with its two entries
SrSessionInit(st, c, n, loadOk, engOk) ==
    LET needM == st.whisper_model = 0
        l     == load_whisper_model(c.whisper, n, loadOk)
        st1   == IF needM THEN [st EXCEPT !.whisper_model = l.ret] ELSE st
        c1    == IF needM THEN [c EXCEPT !.whisper = l.cache] ELSE c
        n1    == IF needM THEN l.loads ELSE n
        m1    == IF needM THEN l.msgs ELSE <<>>
        k1    == IF needM THEN l.calls ELSE <<>>
        needE == st1.tts_engine = 0
        e     == init_tts_engine(c1.tts, engOk)
        st2   == IF needE THEN [st1 EXCEPT !.tts_engine = e.ret] ELSE st1
        c2    == IF needE THEN [c1 EXCEPT !.tts = e.cache] ELSE c1
        k2    == IF needE THEN k1 \o e.calls ELSE k1
    IN  IF needM /\ l.raised
        THEN [st |-> st, cache |-> c1, loads |-> n1, raised |-> TRUE,
              msgs |-> m1, calls |-> k1, failed |-> <<"whisper.load_model">>]
        ELSE IF needE /\ e.raised
        THEN [st |-> st1, cache |-> c2, loads |-> n1, raised |-> TRUE,
              msgs |-> m1, calls |-> k2, failed |-> <<"pyttsx3.init">>]
        ELSE [st |-> st2, cache |-> c2, loads |-> n1, raised |-> FALSE,
              msgs |-> m1, calls |-> k2, failed |-> <<>>]

Step(st, calls, msgs, failed, audio, text) ==
    [st |-> st, calls |-> calls, msgs |-> msgs, failed |-> failed,
     audio |-> audio, text |-> text]

\* lines 83-95
SrTab1(st, clicked, rfp, tfp, raw) ==
    IF ~clicked THEN Step(st, <<>>, <<>>, <<>>, "", <<>>)
    ELSE LET st0 == [st EXCEPT !.transcribed_text = << <<>> >>]
             a   == record_audio(rfp)
             t   == transcribe_audio(a.ret, tfp, raw)
         IN  IF a.ret # None
             THEN Step([st0 EXCEPT !.transcribed_text = <<t.ret>>],
                       a.calls \o t.calls, a.msgs \o t.msgs,
                       a.failed \o t.failed, a.ret, <<t.ret>>)
             ELSE Step(st0, a.calls, a.msgs, a.failed, a.ret, <<>>)

\* lines 97-104
SrTab2(st, clicked, user_text, sfp) ==
    IF ~clicked THEN Step(st, <<>>, <<>>, <<>>, "", <<>>)
    ELSE LET k == speak_text(user_text, sfp)
         IN  Step(st, k.calls, k.msgs, k.failed, "", <<>>)

\* lines 106-122, with the text also stored as in the first tab
SrTab3_stores_text(st, clicked, rfp, tfp, raw, sfp) ==
    IF ~clicked THEN Step(st, <<>>, <<>>, <<>>, "", <<>>)
    ELSE LET st0 == [st EXCEPT !.repeated_text = << <<>> >>]
             a   == record_audio(rfp)
             t   == transcribe_audio(a.ret, tfp, raw)
             k   == speak_text(t.ret, sfp)
             rpt == Msg("info", "Now repeating your speech...")
         IN  IF a.ret = None
             THEN Step(st0, a.calls, a.msgs, a.failed, a.ret, <<>>)
             ELSE IF ~Truthy(t.ret)
             THEN Step([st0 EXCEPT !.transcribed_text = <<t.ret>>],
                       a.calls \o t.calls, a.msgs \o t.msgs,
                       a.failed \o t.failed, a.ret, <<t.ret>>)
             ELSE Step([st0 EXCEPT !.transcribed_text = <<t.ret>>],
                       a.calls \o t.calls \o k.calls,
                       a.msgs \o t.msgs \o <<rpt>> \o k.msgs,
                       a.failed \o t.failed \o k.failed, a.ret, <<t.ret>>)

\* lines 106-122
SrTab3(st, clicked, rfp, tfp, raw, sfp) ==
    IF ~clicked THEN Step(st, <<>>, <<>>, <<>>, "", <<>>)
    ELSE LET st0 == [st EXCEPT !.repeated_text = << <<>> >>]
             a   == record_audio(rfp)
             t   == transcribe_audio(a.ret, tfp, raw)
             k   == speak_text(t.ret, sfp)
             rpt == Msg("info", "Now repeating your speech...")
         IN  IF a.ret = None
             THEN Step(st0, a.calls, a.msgs, a.failed, a.ret, <<>>)
             ELSE IF ~Truthy(t.ret)
             THEN Step(st0, a.calls \o t.calls, a.msgs \o t.msgs,
                       a.failed \o t.failed, a.ret, <<t.ret>>)
             ELSE Step(st0, a.calls \o t.calls \o k.calls,
                       a.msgs \o t.msgs \o <<rpt>> \o k.msgs,
                       a.failed \o t.failed \o k.failed, a.ret, <<t.ret>>)

\* one run of main; button is the button whose click caused the run
SrMain(s, button, user_text, loadOk, engOk, rfp, tfp, raw, sfp) ==
    /\ script = "speech_recognition.py"
    /\ \E i \in {SrSessionInit(ss[s], cache, loads, loadOk, engOk)} :
       \E t1 \in {SrTab1(i.st, button = "record_transcribe", rfp, tfp, raw)} :
       \E t2 \in {SrTab2(t1.st, button = "speak_text", user_text, sfp)} :
       \E t3 \in {SrTab3(t2.st, button = "record_repeat", rfp, tfp, raw, sfp)} :
       \E in \in {[EmptyRun EXCEPT !.who = s, !.kind = "speech_recognition.py",
                                   !.button = button, !.user_text = user_text]} :
          /\ cache' = i.cache
          /\ loads' = i.loads
          /\ UNCHANGED <<script, tmp>>
          /\ IF i.raised
             THEN /\ ss' = [ss EXCEPT ![s] = i.st]
                  /\ run' = [in EXCEPT !.raised = TRUE, !.msgs = i.msgs,
                                       !.calls = i.calls, !.failed = i.failed]
             ELSE /\ ss' = [ss EXCEPT ![s] = t3.st]
                  /\ run' = [in EXCEPT
                               !.msgs = i.msgs \o t1.msgs \o t2.msgs \o t3.msgs,
                               !.calls = i.calls \o t1.calls \o t2.calls \o t3.calls,
                               !.failed = t1.failed \o t2.failed \o t3.failed,
                               !.audio = IF button = "record_repeat"
                                         THEN t3.audio ELSE t1.audio,
                               !.text = IF button = "record_repeat"
                                        THEN t3.text ELSE t1.text]

TranscribeOutcomes(rfp) == IF rfp = "none" THEN TranscribeFail ELSE {"none"}

SpeakOutcomes(text) == IF Truthy(text) THEN SpeakFail ELSE {"none"}

\* a run caused by editing the text area
SrRerun ==
    \E s \in Sessions, user_text \in Inputs :
        \E loadOk \in LoadOutcomes(s), engOk \in EngineOutcomes(s) :
            SrMain(s, "none", user_text, loadOk, engOk, "none", "none", <<>>, "none")

\* the clicks on the two recording buttons do not use the text area
SrRecordClick ==
    \E s \in Sessions, user_text \in {<<>>}, rfp \in RecordFail :
        \E loadOk \in LoadOutcomes(s), engOk \in EngineOutcomes(s),
           tfp \in TranscribeOutcomes(rfp) :
            \E raw \in RawOutcomes(IF rfp = "none" THEN tfp ELSE rfp) :
                SrMain(s, "record_transcribe", user_text, loadOk, engOk,
                       rfp, tfp, raw, "none")

SrSpeakClick ==
    \E s \in Sessions, user_text \in Inputs :
        \E loadOk \in LoadOutcomes(s), engOk \in EngineOutcomes(s),
           sfp \in SpeakOutcomes(user_text) :
            SrMain(s, "speak_text", user_text, loadOk, engOk,
                   "none", "none", <<>>, sfp)

SrRepeatClick ==
    \E s \in Sessions, user_text \in {<<>>}, rfp \in RecordFail :
        \E loadOk \in LoadOutcomes(s), engOk \in EngineOutcomes(s),
           tfp \in TranscribeOutcomes(rfp) :
            \E raw \in RawOutcomes(IF rfp = "none" THEN tfp ELSE rfp) :
                \E sfp \in SpeakOutcomes(strip(raw)) :
                    SrMain(s, "record_repeat", user_text, loadOk, engOk,
                           rfp, tfp, raw, sfp)

(***************************************************************************)
(* Spec: the sessions of one process                                       *)
(***************************************************************************)
Init ==
    /\ script \in {"app.py", "speech_recognition.py"}
    /\ cache = [whisper |-> 0, tts |-> 0]
    /\ loads = 0
    /\ tmp = 0
    /\ ss = [s \in Sessions |-> EmptyState]
    /\ run = EmptyRun

\* A browser session ends and another one starts in the same process: the
\* new session finds no key in st.session_state, the memo of the process
\* and the files on disk stay.
NewSession ==
    \E s \in Sessions :
        /\ ss[s] # EmptyState
        /\ ss' = [ss EXCEPT ![s] = EmptyState]
        /\ run' = [EmptyRun EXCEPT !.who = s, !.kind = "new session"]
        /\ UNCHANGED <<script, cache, loads, tmp>>

Next ==
    \/ AppRerun
    \/ AppTranscribeClick
    \/ SrRerun
    \/ SrRecordClick
    \/ SrSpeakClick
    \/ SrRepeatClick
    \/ NewSession

Spec == Init /\ [][Next]_vars

(***************************************************************************)
(* SpecCall: the operations of the two modules called directly             *)
(***************************************************************************)
Audios == {None, "audio"}

CallRecordAudio ==
    /\ script = "speech_recognition.py"
    /\ \E fp \in RecordFail :
       \E r \in {record_audio(fp)} :
          run' = [EmptyRun EXCEPT !.kind = "record_audio", !.calls = r.calls,
                                  !.msgs = r.msgs, !.raised = r.raised,
                                  !.failed = r.failed, !.audio = r.ret]
    /\ UNCHANGED <<script, cache, loads, tmp, ss>>

CallTranscribeAudio ==
    /\ script = "speech_recognition.py"
    /\ \E audio \in Audios, fp \in TranscribeFail :
       \E raw \in RawOutcomes(fp) :
       \E r \in {transcribe_audio(audio, fp, raw)} :
          run' = [EmptyRun EXCEPT !.kind = "transcribe_audio", !.file = audio,
                                  !.calls = r.calls, !.msgs = r.msgs,
                                  !.raised = r.raised, !.failed = r.failed,
                                  !.text = <<r.ret>>]
    /\ UNCHANGED <<script, cache, loads, tmp, ss>>

CallTranscribeUploadedAudio ==
    /\ script = "app.py"
    /\ \E audio_file \in Files, fp \in UploadFail :
       \E raw \in RawOutcomes(fp) :
       \E r \in {transcribe_uploaded_audio(audio_file, fp, raw, tmp)} :
          /\ r.tmp <= MaxTmp
          /\ tmp' = r.tmp
          /\ run' = [EmptyRun EXCEPT !.kind = "transcribe_uploaded_audio",
                                     !.file = audio_file,
                                     !.calls = r.calls, !.msgs = r.msgs,
                                     !.raised = r.raised, !.failed = r.failed,
                                     !.text = <<r.ret>>]
    /\ UNCHANGED <<script, cache, loads, ss>>

CallSpeakText ==
    /\ script = "speech_recognition.py"
    /\ \E text \in Spoken :
       \E fp \in SpeakOutcomes(text) :
       \E r \in {speak_text(text, fp)} :
          run' = [EmptyRun EXCEPT !.kind = "speak_text", !.user_text = text,
                                  !.calls = r.calls, !.msgs = r.msgs,
                                  !.raised = r.raised, !.failed = r.failed]
    /\ UNCHANGED <<script, cache, loads, tmp, ss>>

NextCall ==
    \/ CallRecordAudio
    \/ CallTranscribeAudio
    \/ CallTranscribeUploadedAudio
    \/ CallSpeakText

SpecCall == Init /\ [][NextCall]_vars

(***************************************************************************)
(* SpecText: the text-to-speech tab of app.py (lines 109-121) on every     *)
(* text of up to MaxLen characters                                         *)
(***************************************************************************)
InitText ==
    /\ script = "app.py"
    /\ cache = [whisper |-> 0, tts |-> 0]
    /\ loads = 0
    /\ tmp = 0
    /\ ss = [s \in Sessions |-> EmptyState]
    /\ \E user_text \in Texts :
          run = [EmptyRun EXCEPT !.kind = "typed", !.user_text = user_text]

Tab2Render ==
    /\ run.kind = "typed"
    /\ \E t2 \in {AppTab2(run.user_text)} :
          run' = [run EXCEPT !.kind = "tab2", !.html = t2.html,
                             !.word_count = t2.word_count]
    /\ UNCHANGED <<script, cache, loads, tmp, ss>>

Tab2Edit ==
    /\ run.kind = "tab2"
    /\ \E user_text \in Texts :
          run' = [EmptyRun EXCEPT !.kind = "typed", !.user_text = user_text]
    /\ UNCHANGED <<script, cache, loads, tmp, ss>>

NextText ==
    \/ Tab2Render
    \/ Tab2Edit

SpecText == InitText /\ [][NextText]_vars

(***************************************************************************)
(* Properties                                                              *)
(***************************************************************************)
Stored(s) == ss[s].transcribed_text

\* a run of main that made a transcription attempt
IsAttempt(r) ==
    /\ ~r.raised
    /\ r.button \in {"transcribe_upload", "record_transcribe"}

\* C1 as stated: the stored text is that of the most recent successful
\* transcription attempt, so an attempt that fails leaves the text an
\* earlier success stored as it was.
C1_FailedAttemptKeepsText ==
    [][ (IsAttempt(run') /\ run'.failed # <<>> /\ Stored(run'.who) # <<>>
         /\ Truthy(Stored(run'.who)[1]))
        => ss'[run'.who].transcribed_text = Stored(run'.who) ]_vars

\* C1 amended: after a transcription attempt the stored text is the result
\* of that attempt, the text returned when it succeeded and "" when
\* it failed; every other run leaves a stored text as it is (app.py sets a
\* missing one to ""), and no run touches the text of another session.
C1_TextIsLastAttempt ==
    [][ /\ IsAttempt(run') =>
             ss'[run'.who].transcribed_text =
                << IF run'.failed # <<>> THEN <<>> ELSE run'.text[1] >>
        /\ \A s \in Sessions :
             ((~IsAttempt(run') \/ s # run'.who)
              /\ ~(run'.kind = "new session" /\ s = run'.who)) =>
                \/ ss'[s].transcribed_text = Stored(s)
                \/ /\ Stored(s) = <<>>
                   /\ script = "app.py"
                   /\ s = run'.who
                   /\ ss'[s].transcribed_text = << <<>> >> ]_vars

\* a failed attempt by a session that already holds the model has left ""
C1_Witness ==
    /\ IsAttempt(run)
    /\ run.failed = <<"model.transcribe">>
    /\ Count(run.calls, "whisper.load_model") = 0
    /\ Stored(run.who) = << <<>> >>

\* C2: no temporary file remains after any sequence of runs.
C2_NoTempFileRemains == tmp = 0

\* C3: after every run of app.py's main, with or without the click, a
\* non-empty transcription held in session state is shown.
C3_ResultSurvivesRerender ==
    (run.kind = "app.py" /\ ~run.raised /\ Stored(run.who) # <<>>
     /\ Truthy(Stored(run.who)[1]))
    => run.text_area = Stored(run.who)

Operations ==
    {"record_audio", "transcribe_audio", "transcribe_uploaded_audio", "speak_text"}

\* the library call that was under way when the step named f raised
CallOf(f) == IF f = "result" THEN "model.transcribe" ELSE f

\* C4: an operation never raises; when one of its library calls fails it
\* returns its empty result, reports one error, and the failed call was made
\* once and is the last call made.
C4_FailureIsCaught ==
    run.kind \in Operations =>
        /\ ~run.raised
        /\ Len(run.failed) <= 1
        /\ run.failed = <<>> => Errors(run.msgs) = 0
        /\ run.failed # <<>> =>
              /\ Errors(run.msgs) = 1
              /\ Count(run.calls, CallOf(run.failed[1])) = 1
              /\ run.calls[Len(run.calls)] = CallOf(run.failed[1])
              /\ run.kind = "record_audio" => run.audio = None
              /\ run.kind \in {"transcribe_audio", "transcribe_uploaded_audio"}
                    => run.text = << <<>> >>

C4_Witness ==
    /\ run.kind = "transcribe_uploaded_audio"
    /\ run.failed = <<"model.transcribe">>
    /\ tmp > 0

\* C5: transcribing None returns "", emits one warning and nothing else,
\* makes no library call (no model call, no temporary file), never raises.
C5_NoAudioNoWork ==
    (run.kind \in {"transcribe_audio", "transcribe_uploaded_audio"}
     /\ run.file = None)
    => /\ run.text = << <<>> >>
       /\ Len(run.msgs) = 1
       /\ Warnings(run.msgs) = 1
       /\ run.calls = <<>>
       /\ run.failed = <<>>
       /\ ~run.raised

C5_Witness == run.kind = "transcribe_uploaded_audio" /\ run.file = None

Completed(msgs) ==
    \E i \in 1..Len(msgs) : msgs[i] = Msg("success", "Speech completed!")

\* C6 as stated: empty text makes no engine call and warns; non-empty text
\* makes exactly the calls say, runAndWait, and completion is reported only
\* if neither failed.
C6_SayThenWaitOnce ==
    run.kind = "speak_text" =>
        IF ~Truthy(run.user_text)
        THEN run.calls = <<>> /\ Warnings(run.msgs) = 1 /\ ~Completed(run.msgs)
        ELSE /\ run.calls = <<"engine.say", "engine.runAndWait">>
             /\ Completed(run.msgs) => run.failed = <<>>

\* C6 amended: with non-empty text say is called once; runAndWait is called
\* once after it when say returned and not at all when say raised;
\* completion is reported exactly when both returned.
C6_WaitOnlyAfterSayReturned ==
    run.kind = "speak_text" =>
        IF ~Truthy(run.user_text)
        THEN run.calls = <<>> /\ Warnings(run.msgs) = 1 /\ ~Completed(run.msgs)
        ELSE /\ run.calls = IF run.failed = <<"engine.say">>
                            THEN <<"engine.say">>
                            ELSE <<"engine.say", "engine.runAndWait">>
             /\ Completed(run.msgs) <=> run.failed = <<>>

C6_Witness ==
    /\ run.kind = "speak_text"
    /\ run.failed = <<"engine.say">>
    /\ run.calls = <<"engine.say">>

\* C7: in the markup shown for the entered text, the string literal of the
\* script denotes the entered text, the statements after it are those of
\* the template, and so is the markup after the script element.
C7_TextIsOnlyData ==
    run.html # <<>> =>
        /\ TextLiteral(run.html[1]).ok
        /\ TextLiteral(run.html[1]).value = run.user_text
        /\ TextLiteral(run.html[1]).rest = ScriptTail
        /\ AfterScript(run.html[1]) = MarkupTail

\* C8: whisper.load_model builds at most one model in the process; a
\* session that holds a handle holds the memoized one, the memo never
\* changes once set, and a session keeps the handle it holds until it ends.
C8_ModelLoadedOnce ==
    [][ /\ loads' <= 1
        /\ cache.whisper # 0 => cache'.whisper = cache.whisper
        /\ \A s \in Sessions :
             /\ ss'[s].whisper_model # 0 => ss'[s].whisper_model = cache'.whisper
             /\ (ss[s].whisper_model # 0
                 /\ ~(run'.kind = "new session" /\ s = run'.who))
                => ss'[s].whisper_model = ss[s].whisper_model
      ]_vars

\* the first run of a session: load_whisper_model was called, found the
\* memo filled by an earlier session and built nothing
C8_Witness ==
    /\ loads = 1
    /\ run.who \in Sessions
    /\ ~run.raised
    /\ \E i \in 1..Len(run.msgs) :
          run.msgs[i] = Msg("info", "Loading Whisper model...")
    /\ Count(run.calls, "whisper.load_model") = 0
    /\ ss[run.who].whisper_model = cache.whisper

\* the maximal runs of non-whitespace characters, counted by their first
\* characters
Runs(text) ==
    Cardinality({i \in 1..Len(text) :
                    /\ text[i] \notin Whitespace
                    /\ (i = 1 \/ text[i - 1] \in Whitespace)})

\* C9: the word count shown is the number of maximal runs of non-whitespace
\* characters of the entered text; none is shown for empty text.
C9_WordCount ==
    (run.kind \in {"tab2", "app.py"} /\ ~run.raised) =>
        IF run.user_text = <<>>
        THEN run.word_count = <<>>
        ELSE run.word_count = <<Runs(run.user_text)>>

C9_Witness ==
    /\ run.kind = "tab2"
    /\ run.user_text = <<" ", "a", " ">>
    /\ run.word_count = <<1>>

IsStep(c) == c \in {"sd.rec", "model.transcribe", "engine.say"}

\* C10: a Record and Repeat run records, then transcribes, then speaks,
\* each at most once; it transcribes only a recorded buffer, speaks only a
\* non-empty transcription, leaves transcribed_text as it was and sets
\* repeated_text to "".
C10_RecordRepeatOrder ==
    [][ (run'.button = "record_repeat" /\ ~run'.raised) =>
          /\ SelectSeq(run'.calls, IsStep) \in
                { <<"sd.rec">>, <<"sd.rec", "model.transcribe">>,
                  <<"sd.rec", "model.transcribe", "engine.say">> }
          /\ Count(run'.calls, "model.transcribe") = 1 => run'.audio = "audio"
          /\ Count(run'.calls, "engine.say") = 1 =>
                run'.text # <<>> /\ Truthy(run'.text[1])
          /\ Count(run'.calls, "engine.runAndWait") <= 1
          /\ ss'[run'.who].transcribed_text = Stored(run'.who)
          /\ ss'[run'.who].repeated_text = << <<>> >>
      ]_vars

C10_Witness ==
    /\ run.button = "record_repeat"
    /\ SelectSeq(run.calls, IsStep) = <<"sd.rec", "model.transcribe", "engine.say">>
    /\ Stored(run.who) # <<>>
    /\ Truthy(Stored(run.who)[1])

====
